---- MODULE Spec2Model ----
(***************************************************************************)
(* Model of src/main.rs: RoadNetwork and the line loop of                  *)
(* RoadNetwork::read_from_osm_file.                                        *)
(*                                                                         *)
(* One step of the model is one input line, given by the event the three   *)
(* regular expressions and the two starts_with tests classify it as.       *)
(*                                                                         *)
(* Numbers.  isize identifiers are the naturals the pattern (\d+) yields.  *)
(* f32 values are held in fixed point: degrees in 1/1000 degree, distances *)
(* in centimetres (truncated), speed_factor as the km/h figure it was      *)
(* multiplied from, KMPH = KMPH_NUM / KMPH_DEN being applied where the     *)
(* code divides by speed_factor.  f32 rounding error is not modelled.      *)
(*                                                                         *)
(* Vec<Vec<Arc>> is a sequence of sequences; internal index i is position  *)
(* i + 1 of the sequence.  HashMaps are functions on the set of their keys.*)
(***************************************************************************)
EXTENDS Integers, Sequences, FiniteSets, TLC

\* ------------------------------------------------------------- bounds
MaxId == 2          \* identifiers are 0 .. MaxId
MaxHops == 3        \* <nd> lines accepted per <way>
MaxSegments == 2    \* <way> lines accepted
MaxTags == 2        \* highway tag lines accepted per <way>
MaxReadErrors == 1  \* lines accepted whose read fails
MaxDelta == 2       \* SpecCost: coordinates differ by 0 .. MaxDelta thousandths of a degree

Ids == 0 .. MaxId

\* the coordinates a point line may carry, in 1/1000 degree
Points == { [lat |-> 49000, lon |-> 6000], [lat |-> 49000, lon |-> 6001] }

\* the values a highway tag line may carry
Categories == { "residential", "service", "footway" }

\* ------------------------------------------------------------- constants
KMPH_NUM == 1000
KMPH_DEN == 3600
M_PER_DEG_LAT == 111229
M_PER_DEG_LON == 71695

VARIABLES
    osm_id_map,     \* RoadNetwork.osm_id_map : identifier -> internal index
    nodes,          \* RoadNetwork.nodes      : identifier -> Point
    adjacent_arcs,  \* RoadNetwork.adjacent_arcs
    hops,           \* local hops
    is_way,         \* local is_way
    is_highway,     \* local is_highway
    speed_factor,   \* local speed_factor (km/h figure, 0 for 0_f32)
    status,         \* "running", "panicked" (an unwrap failed), "done" (Ok(())),
                    \* "io_error" (File::open failed, Err returned by `?`)
    tags,           \* history: categories of the tag lines since the last <way
    declared,       \* history: the coordinate of the latest point line of each identifier
    nsegs,          \* history: <way lines read
    unread,         \* history: lines for which reader.lines() gave an Err
    malformed       \* history: lines a pattern matched whose number did not parse

vars == << osm_id_map, nodes, adjacent_arcs, hops, is_way, is_highway,
           speed_factor, status, tags, declared, nsegs, unread, malformed >>

\* ------------------------------------------------------------- arithmetic
Abs(x) == IF x < 0 THEN -x ELSE x

RECURSIVE SqrtBetween(_, _, _)
\* the r in lo .. hi with r*r <= s < (r+1)*(r+1), by bisection
SqrtBetween(s, lo, hi) ==
    IF lo = hi THEN lo
    ELSE LET mid == (lo + hi + 1) \div 2
         IN IF mid * mid <= s THEN SqrtBetween(s, mid, hi)
                              ELSE SqrtBetween(s, lo, mid - 1)

Sqrt(s) == SqrtBetween(s, 0, 46340)

\* impl Sub for Point: the distance in cm of two points given in 1/1000 degree
PointSub(self, other) ==
    LET dlat == (Abs(self.lat - other.lat) * M_PER_DEG_LAT) \div 10
        dlon == (Abs(self.lon - other.lon) * M_PER_DEG_LON) \div 10
    IN Sqrt(dlat * dlat + dlon * dlon)

\* the speed table of the match in read_from_osm_file, km/h; 0 is the &_ arm
HighwaySpeed(v) ==
    CASE v = "motorway" -> 110
      [] v = "trunk" -> 110
      [] v = "primary" -> 70
      [] v = "secondary" -> 60
      [] v = "tertiary" -> 50
      [] v = "motorway_link" -> 50
      [] v = "trunk_link" -> 50
      [] v = "primary_link" -> 50
      [] v = "secondary_link" -> 50
      [] v = "road" -> 40
      [] v = "unclassified" -> 40
      [] v = "residential" -> 30
      [] v = "unsurfaced" -> 30
      [] v = "living_street" -> 10
      [] v = "service" -> 5
      [] OTHER -> 0

\* the cost rounded to the nearest second instead of truncated
CostOf_rounded(distance, speed) ==
    (2 * distance * KMPH_DEN + 100 * speed * KMPH_NUM) \div (2 * 100 * speed * KMPH_NUM)

\* (distance / speed_factor) as usize, distance in cm, speed_factor in km/h
CostOf(distance, speed) ==
    (distance * KMPH_DEN) \div (100 * speed * KMPH_NUM)

\* ------------------------------------------------------------- RoadNetwork
\* A network value: [osm_id_map, nodes, adjacent_arcs, ok]; ok = FALSE once an
\* unwrap has panicked, and then nothing more is done to it.

NewArc(index, cost) == [index |-> index, cost |-> cost]

\* RoadNetwork::new
New == [osm_id_map |-> << >>, nodes |-> << >>, adjacent_arcs |-> << >>, ok |-> TRUE]

\* add_node as `entry(osm_id).or_insert(location)`: the first declaration stays
add_node_keep_first(rn, osm_id, location) ==
    [rn EXCEPT !.nodes =
        [k \in DOMAIN rn.nodes \cup {osm_id} |->
            IF k \in DOMAIN rn.nodes THEN rn.nodes[k] ELSE location]]

\* RoadNetwork::add_node
add_node(rn, osm_id, location) ==
    [rn EXCEPT !.nodes =
        [k \in DOMAIN rn.nodes \cup {osm_id} |->
            IF k = osm_id THEN location ELSE rn.nodes[k]]]

\* RoadNetwork::get_index: the index, or -1 for None
get_index(rn, osm_id) ==
    IF osm_id \in DOMAIN rn.osm_id_map THEN rn.osm_id_map[osm_id] ELSE -1

\* get_or_create_index without the lookup: a new index at every call
get_or_create_index_always(rn, osm_id) ==
    LET index == Len(rn.adjacent_arcs)
    IN [rn EXCEPT
           !.adjacent_arcs = Append(rn.adjacent_arcs, << >>),
           !.osm_id_map = [k \in DOMAIN rn.osm_id_map \cup {osm_id} |->
                              IF k = osm_id THEN index ELSE rn.osm_id_map[k]]]

\* RoadNetwork::get_or_create_index: the network afterwards
get_or_create_index(rn, osm_id) ==
    IF get_index(rn, osm_id) # -1 THEN rn
    ELSE LET index == Len(rn.adjacent_arcs)
         IN [rn EXCEPT
                !.adjacent_arcs = Append(rn.adjacent_arcs, << >>),
                !.osm_id_map = [k \in DOMAIN rn.osm_id_map \cup {osm_id} |->
                                   IF k = osm_id THEN index ELSE rn.osm_id_map[k]]]

\* RoadNetwork::distance is defined when both unwraps succeed
distance_ok(rn, osm_id_a, osm_id_b) ==
    osm_id_a \in DOMAIN rn.nodes /\ osm_id_b \in DOMAIN rn.nodes

\* RoadNetwork::distance
distance(rn, osm_id_a, osm_id_b) ==
    PointSub(rn.nodes[osm_id_a], rn.nodes[osm_id_b])

\* _push_arc_at_index as `node.insert(0, arc)`
push_arc_at_index_front(rn, index, arc) ==
    [rn EXCEPT !.adjacent_arcs[index + 1] = << arc >> \o @]

\* RoadNetwork::_push_arc_at_index
push_arc_at_index(rn, index, arc) ==
    [rn EXCEPT !.adjacent_arcs[index + 1] = Append(@, arc)]

\* add_arc without its second push
add_arc_one_way(rn, osm_id_a, osm_id_b, speed) ==
    IF ~distance_ok(rn, osm_id_a, osm_id_b) THEN [rn EXCEPT !.ok = FALSE]
    ELSE LET cost == CostOf(distance(rn, osm_id_a, osm_id_b), speed)
             rn1 == get_or_create_index(rn, osm_id_a)
             index_a == get_index(rn1, osm_id_a)
             rn2 == get_or_create_index(rn1, osm_id_b)
             index_b == get_index(rn2, osm_id_b)
         IN push_arc_at_index(rn2, index_a, NewArc(index_b, cost))

\* add_arc resolving osm_id_b before osm_id_a
add_arc_b_first(rn, osm_id_a, osm_id_b, speed) ==
    IF ~distance_ok(rn, osm_id_a, osm_id_b) THEN [rn EXCEPT !.ok = FALSE]
    ELSE LET cost == CostOf(distance(rn, osm_id_a, osm_id_b), speed)
             rn1 == get_or_create_index(rn, osm_id_b)
             index_b == get_index(rn1, osm_id_b)
             rn2 == get_or_create_index(rn1, osm_id_a)
             index_a == get_index(rn2, osm_id_a)
             rn3 == push_arc_at_index(rn2, index_a, NewArc(index_b, cost))
         IN push_arc_at_index(rn3, index_b, NewArc(index_a, cost))

\* add_arc creating the indices before it looks the coordinates up
add_arc_index_first(rn, osm_id_a, osm_id_b, speed) ==
    LET rn1 == get_or_create_index(rn, osm_id_a)
        index_a == get_index(rn1, osm_id_a)
        rn2 == get_or_create_index(rn1, osm_id_b)
        index_b == get_index(rn2, osm_id_b)
    IN IF ~distance_ok(rn, osm_id_a, osm_id_b) THEN [rn2 EXCEPT !.ok = FALSE]
       ELSE LET cost == CostOf(distance(rn, osm_id_a, osm_id_b), speed)
                rn3 == push_arc_at_index(rn2, index_a, NewArc(index_b, cost))
            IN push_arc_at_index(rn3, index_b, NewArc(index_a, cost))

\* RoadNetwork::add_arc
add_arc(rn, osm_id_a, osm_id_b, speed) ==
    IF ~distance_ok(rn, osm_id_a, osm_id_b) THEN [rn EXCEPT !.ok = FALSE]
    ELSE LET cost == CostOf(distance(rn, osm_id_a, osm_id_b), speed)
             rn1 == get_or_create_index(rn, osm_id_a)
             index_a == get_index(rn1, osm_id_a)
             rn2 == get_or_create_index(rn1, osm_id_b)
             index_b == get_index(rn2, osm_id_b)
             rn3 == push_arc_at_index(rn2, index_a, NewArc(index_b, cost))
         IN push_arc_at_index(rn3, index_b, NewArc(index_a, cost))

RECURSIVE for_hops(_, _, _, _)
\* the loop `for hop in hops.clone()` of the </way branch, from `previous`
for_hops(rn, hs, previous, speed) ==
    IF hs = << >> \/ ~rn.ok THEN rn
    ELSE LET hop == Head(hs)
             rn1 == IF previous > 0 THEN add_arc(rn, hop, previous, speed) ELSE rn
         IN for_hops(rn1, Tail(hs), hop, speed)

\* the body of the </way branch up to `is_way = false`
end_way(rn, hs, highway, speed) ==
    IF highway /\ speed > 0 THEN for_hops(rn, hs, 0, speed) ELSE rn

\* the network the variables hold
Self == [osm_id_map |-> osm_id_map, nodes |-> nodes,
         adjacent_arcs |-> adjacent_arcs, ok |-> TRUE]

\* ------------------------------------------------------------- the line loop
Init ==
    /\ osm_id_map = New.osm_id_map
    /\ nodes = New.nodes
    /\ adjacent_arcs = New.adjacent_arcs
    /\ hops = << >>
    /\ is_way = FALSE
    /\ is_highway = FALSE
    /\ speed_factor = 0
    /\ status = "running"
    /\ tags = << >>
    /\ declared = << >>
    /\ nsegs = 0
    /\ unread = 0
    /\ malformed = 0

\* the point branch also leaving the segment being read
PointDeclared_ends_way(osm_id, location) ==
    /\ status = "running"
    /\ nodes' = add_node(Self, osm_id, location).nodes
    /\ declared' = [k \in DOMAIN declared \cup {osm_id} |->
                        IF k = osm_id THEN location ELSE declared[k]]
    /\ is_way' = FALSE
    /\ UNCHANGED << osm_id_map, adjacent_arcs, hops, is_highway,
                    speed_factor, status, tags, nsegs, unread, malformed >>

\* a line OSM_NODE_RE matches
PointDeclared(osm_id, location) ==
    /\ status = "running"
    /\ nodes' = add_node(Self, osm_id, location).nodes
    /\ declared' = [k \in DOMAIN declared \cup {osm_id} |->
                        IF k = osm_id THEN location ELSE declared[k]]
    /\ UNCHANGED << osm_id_map, adjacent_arcs, hops, is_way, is_highway,
                    speed_factor, status, tags, nsegs, unread, malformed >>

\* the "<way " branch without `is_highway = false`
SegmentStart_keep_highway ==
    /\ status = "running"
    /\ UNCHANGED << declared, unread, malformed >>
    /\ nsegs < MaxSegments
    /\ hops' = << >>
    /\ is_way' = TRUE
    /\ tags' = << >>
    /\ nsegs' = nsegs + 1
    /\ UNCHANGED << osm_id_map, nodes, adjacent_arcs, is_highway, speed_factor,
                    status >>

\* the "<way " branch without `hops = Vec::new()`
SegmentStart_keep_hops ==
    /\ status = "running"
    /\ UNCHANGED << declared, unread, malformed >>
    /\ nsegs < MaxSegments
    /\ is_way' = TRUE
    /\ is_highway' = FALSE
    /\ tags' = << >>
    /\ nsegs' = nsegs + 1
    /\ UNCHANGED << osm_id_map, nodes, adjacent_arcs, hops, speed_factor, status >>

\* a line that starts with "<way "
SegmentStart ==
    /\ status = "running"
    /\ UNCHANGED << declared, unread, malformed >>
    /\ nsegs < MaxSegments
    /\ hops' = << >>
    /\ is_way' = TRUE
    /\ is_highway' = FALSE
    /\ tags' = << >>
    /\ nsegs' = nsegs + 1
    /\ UNCHANGED << osm_id_map, nodes, adjacent_arcs, speed_factor, status >>

\* a line OSM_ND_RE matches
HopReference(osm_id) ==
    /\ status = "running"
    /\ UNCHANGED << declared, unread, malformed >>
    /\ Len(hops) < MaxHops
    /\ hops' = IF is_way THEN Append(hops, osm_id) ELSE hops
    /\ UNCHANGED << osm_id_map, nodes, adjacent_arcs, is_way, is_highway,
                    speed_factor, status, tags, nsegs >>

\* the highway branch taking only the first tag of a segment into account
RoadClassTag_first_wins(v) ==
    /\ status = "running"
    /\ UNCHANGED << declared, unread, malformed >>
    /\ Len(tags) < MaxTags
    /\ IF is_way
       THEN /\ is_highway' = IF tags = << >> THEN HighwaySpeed(v) # 0 ELSE is_highway
            /\ speed_factor' = IF tags = << >> THEN HighwaySpeed(v) ELSE speed_factor
            /\ tags' = Append(tags, v)
       ELSE UNCHANGED << is_highway, speed_factor, tags >>
    /\ UNCHANGED << osm_id_map, nodes, adjacent_arcs, hops, is_way, status,
                    nsegs >>

\* the highway branch whose &_ arm does not clear is_highway
RoadClassTag_flag_stays(v) ==
    /\ status = "running"
    /\ UNCHANGED << declared, unread, malformed >>
    /\ Len(tags) < MaxTags
    /\ IF is_way
       THEN /\ is_highway' = TRUE
            /\ speed_factor' = HighwaySpeed(v)
            /\ tags' = Append(tags, v)
       ELSE UNCHANGED << is_highway, speed_factor, tags >>
    /\ UNCHANGED << osm_id_map, nodes, adjacent_arcs, hops, is_way, status,
                    nsegs >>

\* a line OSM_HIGHWAY_RE matches
RoadClassTag(v) ==
    /\ status = "running"
    /\ UNCHANGED << declared, unread, malformed >>
    /\ Len(tags) < MaxTags
    /\ IF is_way
       THEN /\ is_highway' = (HighwaySpeed(v) # 0)
            /\ speed_factor' = HighwaySpeed(v)
            /\ tags' = Append(tags, v)
       ELSE UNCHANGED << is_highway, speed_factor, tags >>
    /\ UNCHANGED << osm_id_map, nodes, adjacent_arcs, hops, is_way, status,
                    nsegs >>

\* the </way branch outside the `else if is_way` block
SegmentEnd_no_way_test ==
    /\ status = "running"
    /\ UNCHANGED << declared, unread, malformed >>
    /\ LET rn == end_way(Self, hops, is_highway, speed_factor)
       IN /\ osm_id_map' = rn.osm_id_map
          /\ adjacent_arcs' = rn.adjacent_arcs
          /\ is_way' = IF rn.ok THEN FALSE ELSE is_way
          /\ status' = IF rn.ok THEN "running" ELSE "panicked"
    /\ UNCHANGED << nodes, hops, is_highway, speed_factor, tags, nsegs >>

\* a line that starts with "</way"
SegmentEnd ==
    /\ status = "running"
    /\ UNCHANGED << declared, unread, malformed >>
    /\ IF is_way
       THEN LET rn == end_way(Self, hops, is_highway, speed_factor)
            IN /\ osm_id_map' = rn.osm_id_map
               /\ adjacent_arcs' = rn.adjacent_arcs
               /\ is_way' = IF rn.ok THEN FALSE ELSE is_way
               /\ status' = IF rn.ok THEN "running" ELSE "panicked"
       ELSE UNCHANGED << osm_id_map, adjacent_arcs, is_way, status >>
    /\ UNCHANGED << nodes, hops, is_highway, speed_factor, tags, nsegs >>

\* the end of input closing the segment that is open, as </way would
EndOfInput_closes_way ==
    /\ status = "running"
    /\ UNCHANGED << declared, unread, malformed >>
    /\ LET rn == IF is_way THEN end_way(Self, hops, is_highway, speed_factor) ELSE Self
       IN /\ osm_id_map' = rn.osm_id_map
          /\ adjacent_arcs' = rn.adjacent_arcs
          /\ status' = IF rn.ok THEN "done" ELSE "panicked"
    /\ UNCHANGED << nodes, hops, is_way, is_highway, speed_factor, tags, nsegs >>

\* the end of reader.lines(): Ok(())
EndOfInput ==
    /\ status = "running"
    /\ UNCHANGED << declared, unread, malformed >>
    /\ status' = "done"
    /\ UNCHANGED << osm_id_map, nodes, adjacent_arcs, hops, is_way, is_highway,
                    speed_factor, tags, nsegs >>

Next ==
    \/ \E osm_id \in Ids, location \in Points : PointDeclared(osm_id, location)
    \/ SegmentStart
    \/ \E osm_id \in Ids : HopReference(osm_id)
    \/ \E v \in Categories : RoadClassTag(v)
    \/ SegmentEnd
    \/ EndOfInput

Spec == Init /\ [][Next]_vars

\* ------------------------------------------------------------- failing input
\* File::open(filename)? fails: the Err is returned before any line is read
OpenFails ==
    /\ Init
    /\ status' = "io_error"
    /\ UNCHANGED << osm_id_map, nodes, adjacent_arcs, hops, is_way, is_highway,
                    speed_factor, tags, declared, nsegs, unread, malformed >>

\* reader.lines() yields an Err: `if let Ok(line) = line` has no else branch
ReadError ==
    /\ status = "running"
    /\ unread < MaxReadErrors
    /\ unread' = unread + 1
    /\ UNCHANGED << osm_id_map, nodes, adjacent_arcs, hops, is_way, is_highway,
                    speed_factor, status, tags, declared, nsegs, malformed >>

\* a point line whose number is skipped instead of unwrapped
MalformedPoint_skipped ==
    /\ status = "running"
    /\ malformed' = malformed + 1
    /\ UNCHANGED << osm_id_map, nodes, adjacent_arcs, hops, is_way, is_highway,
                    speed_factor, status, tags, declared, nsegs, unread >>

\* a line OSM_NODE_RE matches whose identifier is outside isize, or whose
\* latitude or longitude is no f32 ("1.2.3"): parse(..).unwrap() panics
\* while the arguments of add_node are evaluated
MalformedPoint ==
    /\ status = "running"
    /\ malformed' = malformed + 1
    /\ status' = "panicked"
    /\ UNCHANGED << osm_id_map, nodes, adjacent_arcs, hops, is_way, is_highway,
                    speed_factor, tags, declared, nsegs, unread >>

\* a line OSM_ND_RE matches whose identifier is outside isize: inside a
\* segment parse(..).unwrap() panics before the push, outside the line is
\* not looked at
MalformedHop ==
    /\ status = "running"
    /\ IF is_way
       THEN malformed' = malformed + 1 /\ status' = "panicked"
       ELSE UNCHANGED << malformed, status >>
    /\ UNCHANGED << osm_id_map, nodes, adjacent_arcs, hops, is_way, is_highway,
                    speed_factor, tags, declared, nsegs, unread >>

NextFaults ==
    \/ Next
    \/ OpenFails
    \/ ReadError
    \/ MalformedPoint
    \/ MalformedHop

\* the line loop over any input; Spec is the loop over input all of whose
\* lines are read and parsed
SpecFaults == Init /\ [][NextFaults]_vars

\* ------------------------------------------------------------- one edge
\* The loop at the last line of a segment of two hops: two points of a grid
\* have been declared as 1 and 2, a segment of the hops 1, 2 and one highway
\* tag is open, and its </way line is read.
Grid == { [lat |-> 49000 + i, lon |-> 6000 + j] : i, j \in 0 .. MaxDelta }

\* every value of the speed table, and one outside it
TableCategories ==
    { "motorway", "trunk", "primary", "secondary", "tertiary", "motorway_link",
      "trunk_link", "primary_link", "secondary_link", "road", "unclassified",
      "residential", "unsurfaced", "living_street", "service", "footway" }

InitCost ==
    /\ \E p, q \in Grid : nodes = (1 :> p) @@ (2 :> q)
    /\ declared = nodes
    /\ osm_id_map = New.osm_id_map
    /\ adjacent_arcs = New.adjacent_arcs
    /\ hops = << 1, 2 >>
    /\ is_way = TRUE
    /\ \E v \in TableCategories :
          /\ tags = << v >>
          /\ is_highway = (HighwaySpeed(v) # 0)
          /\ speed_factor = HighwaySpeed(v)
    /\ status = "running"
    /\ nsegs = 1
    /\ unread = 0
    /\ malformed = 0

NextCost == SegmentEnd

SpecCost == InitCost /\ [][NextCost]_vars

\* ------------------------------------------------------------- vocabulary
NumNodes == Len(adjacent_arcs)

\* the segment being closed would have its edges built
Usable == is_highway /\ speed_factor > 0

\* a </way line read inside a segment
EndsSegment == SegmentEnd /\ is_way

AllDeclared(hs) == \A i \in DOMAIN hs : hs[i] \in DOMAIN nodes

Distinct(hs) == \A i, j \in DOMAIN hs : i # j => hs[i] # hs[j]

\* the identifier a mapping sends to an index
IdAt(m, index) == CHOOSE id \in DOMAIN m : m[id] = index

\* how many arcs  u -> v  of cost c  the adjacency lists hold
ArcCount(u, v, c) ==
    Cardinality({ k \in DOMAIN adjacent_arcs[u + 1] :
                    adjacent_arcs[u + 1][k] = NewArc(v, c) })

TotalArcs(adj) ==
    LET RECURSIVE Sum(_)
        Sum(n) == IF n = 0 THEN 0 ELSE Len(adj[n]) + Sum(n - 1)
    IN Sum(Len(adj))

\* length of list u (a position) before the step
OldLen(u) == IF u <= Len(adjacent_arcs) THEN Len(adjacent_arcs[u]) ELSE 0

IsPrefix(s, t) == Len(s) <= Len(t) /\ \A k \in DOMAIN s : s[k] = t[k]

\* every arc the step appends is costed from the stored points at `speed`
NewArcsCostedAt(speed) ==
    \A u \in DOMAIN adjacent_arcs' :
        \A k \in (OldLen(u) + 1) .. Len(adjacent_arcs'[u]) :
            LET arc == adjacent_arcs'[u][k]
                a == IdAt(osm_id_map', u - 1)
                b == IdAt(osm_id_map', arc.index)
            IN /\ a \in DOMAIN nodes
               /\ b \in DOMAIN nodes
               /\ arc.cost = CostOf(PointSub(nodes[a], nodes[b]), speed)

\* ------------------------------------------------------------- C1
\* C1: in every reachable state every arc u -> v of cost c has its reverse
\* v -> u of cost c, and the two come in pairs: there are as many arcs
\* v -> u of cost c as u -> v of cost c, and an even number when u = v.
C1_Symmetry ==
    \A u \in 0 .. NumNodes - 1 :
        \A k \in DOMAIN adjacent_arcs[u + 1] :
            LET arc == adjacent_arcs[u + 1][k]
            IN /\ arc.index < NumNodes
               /\ IF arc.index = u
                  THEN ArcCount(u, u, arc.cost) % 2 = 0
                  ELSE ArcCount(arc.index, u, arc.cost) = ArcCount(u, arc.index, arc.cost)

\* an arc between two different nodes with a positive cost, and a self loop
C1_Witness ==
    /\ \E u \in 0 .. NumNodes - 1 : \E k \in DOMAIN adjacent_arcs[u + 1] :
          adjacent_arcs[u + 1][k].index # u /\ adjacent_arcs[u + 1][k].cost > 0
    /\ \E u \in 0 .. NumNodes - 1 : \E k \in DOMAIN adjacent_arcs[u + 1] :
          adjacent_arcs[u + 1][k].index = u

\* ------------------------------------------------------------- C2
\* C2: in every reachable state the identifier-to-index mapping is injective,
\* its values are exactly 0 .. N-1 for N adjacency lists, and every arc's
\* target index is below N.
C2_IndexBijection ==
    /\ \A a, b \in DOMAIN osm_id_map : osm_id_map[a] = osm_id_map[b] => a = b
    /\ { osm_id_map[a] : a \in DOMAIN osm_id_map } = 0 .. NumNodes - 1
    /\ Cardinality(DOMAIN osm_id_map) = NumNodes
    /\ \A u \in DOMAIN adjacent_arcs : \A k \in DOMAIN adjacent_arcs[u] :
          adjacent_arcs[u][k].index \in 0 .. NumNodes - 1

\* three identifiers indexed, a second segment having met an indexed one again
C2_Witness ==
    /\ NumNodes = 3
    /\ nsegs = 2
    /\ ~is_way
    /\ TotalArcs(adjacent_arcs) >= 6

\* ------------------------------------------------------------- C3
\* C3: a usable segment that ends with a consecutive pair of hops one of which
\* has no stored point aborts, and every identifier with an index has a
\* stored point.
C3_DanglingFatal ==
    /\ [](DOMAIN osm_id_map \subseteq DOMAIN nodes)
    /\ [][ (/\ EndsSegment
            /\ Usable
            /\ \E i \in 1 .. Len(hops) - 1 :
                  hops[i] \notin DOMAIN nodes \/ hops[i + 1] \notin DOMAIN nodes)
           => status' = "panicked" ]_vars

\* ------------------------------------------------------------- C4
\* C4: a usable segment with hops h1..hk, all declared, adds exactly k-1
\* edges at its end, one between h_i and h_(i+1) for each i.
C4_OneEdgePerPair ==
    [][ (EndsSegment /\ Usable /\ Len(hops) >= 1 /\ AllDeclared(hops))
        => /\ TotalArcs(adjacent_arcs') = TotalArcs(adjacent_arcs) + 2 * (Len(hops) - 1)
           /\ \A i \in 1 .. Len(hops) - 1 :
                 /\ hops[i] \in DOMAIN osm_id_map'
                 /\ hops[i + 1] \in DOMAIN osm_id_map'
                 /\ \E k \in (OldLen(osm_id_map'[hops[i]] + 1) + 1)
                               .. Len(adjacent_arcs'[osm_id_map'[hops[i]] + 1]) :
                       adjacent_arcs'[osm_id_map'[hops[i]] + 1][k].index
                           = osm_id_map'[hops[i + 1]] ]_vars

\* ------------------------------------------------------------- C5
\* the identifiers add_arc meets while the hops hs are walked, in the order it
\* resolves them: for each pair that is built, the current hop, then the
\* previous one
RECURSIVE Encountered(_, _)
Encountered(hs, i) ==
    IF i > Len(hs) THEN << >>
    ELSE (IF hs[i - 1] > 0 THEN << hs[i], hs[i - 1] >> ELSE << >>)
         \o Encountered(hs, i + 1)

\* the first position of x in the sequence e
FirstPos(e, x) == CHOOSE j \in DOMAIN e : e[j] = x /\ \A l \in 1 .. j - 1 : e[l] # x

\* C5 as stated: a usable segment with distinct declared hops h1..hk, processed
\* on an empty graph, gives h_i the index i-1.  (Identifiers above 0 only, so
\* that every pair is built.)
C5_HopOrder ==
    [][ (/\ EndsSegment /\ Usable /\ adjacent_arcs = << >>
         /\ Len(hops) >= 2 /\ Distinct(hops) /\ AllDeclared(hops)
         /\ \A i \in DOMAIN hops : hops[i] > 0)
        => \A i \in DOMAIN hops :
              hops[i] \in DOMAIN osm_id_map' /\ osm_id_map'[hops[i]] = i - 1 ]_vars

\* C5 (amended): indices go to identifiers in the order add_arc first meets
\* them, the call for a consecutive pair being add_arc(current, previous) with
\* current resolved first: an identifier new to the mapping gets the number of
\* lists there were plus the number of new identifiers met before it.  Hence
\* for distinct declared hops h1..hk whose pairs are all built, on an empty
\* graph, index(h2) = 0, index(h1) = 1 and index(h_i) = i-1 for i >= 3.
C5_EncounterOrder ==
    [][ (EndsSegment /\ Usable /\ AllDeclared(hops))
        => LET e == Encountered(hops, 2)
               met == { e[j] : j \in DOMAIN e }
           IN /\ DOMAIN osm_id_map' = DOMAIN osm_id_map \cup met
              /\ \A x \in met \ DOMAIN osm_id_map :
                    osm_id_map'[x] = Len(adjacent_arcs)
                        + Cardinality({ e[j] : j \in 1 .. FirstPos(e, x) - 1 }
                                      \ DOMAIN osm_id_map)
              /\ (/\ adjacent_arcs = << >> /\ Len(hops) >= 2 /\ Distinct(hops)
                  /\ \A i \in 1 .. Len(hops) - 1 : hops[i] > 0)
                 => /\ osm_id_map'[hops[2]] = 0
                    /\ osm_id_map'[hops[1]] = 1
                    /\ \A i \in 3 .. Len(hops) : osm_id_map'[hops[i]] = i - 1 ]_vars

\* three distinct hops have been indexed from an empty graph
C5_Witness ==
    /\ nsegs = 1 /\ ~is_way /\ status = "running"
    /\ Len(hops) = 3 /\ Distinct(hops)
    /\ DOMAIN osm_id_map = { hops[i] : i \in DOMAIN hops }
    /\ osm_id_map[hops[2]] = 0 /\ osm_id_map[hops[1]] = 1 /\ osm_id_map[hops[3]] = 2

\* ------------------------------------------------------------- C6
LastTag == tags[Len(tags)]

\* C6: at the end of a segment that saw a highway tag, the segment is usable
\* exactly if its last tag is in the speed table, the speed is then that of
\* the last tag and costs the arcs it adds; if the last tag is not in the
\* table the segment adds nothing.
C6_LastTagWins ==
    [][ (EndsSegment /\ tags # << >>)
        => /\ Usable <=> HighwaySpeed(LastTag) > 0
           /\ Usable => speed_factor = HighwaySpeed(LastTag)
           /\ ~Usable => UNCHANGED << osm_id_map, adjacent_arcs >>
           /\ NewArcsCostedAt(HighwaySpeed(LastTag)) ]_vars

\* an unrecognized tag, then residential: the edge of 71.69 m costs 8 s
C6_Witness ==
    /\ nsegs = 1 /\ ~is_way
    /\ tags = << "footway", "residential" >>
    /\ \E u \in DOMAIN adjacent_arcs : \E k \in DOMAIN adjacent_arcs[u] :
          adjacent_arcs[u][k].cost = 8

\* ------------------------------------------------------------- C7
\* C7: a segment that saw no highway tag, or only tags outside the speed
\* table, ends without changing the index mapping or the adjacency lists.
C7_UnusableNoEdges ==
    [][ (EndsSegment /\ \A i \in DOMAIN tags : HighwaySpeed(tags[i]) = 0)
        => /\ UNCHANGED << osm_id_map, adjacent_arcs >>
           /\ status' = "running" ]_vars

\* a second segment of three declared hops and no tag has ended after a first
\* one that left arcs and a positive speed behind
C7_Witness ==
    /\ nsegs = 2 /\ ~is_way /\ status = "running"
    /\ tags = << >>
    /\ speed_factor > 0
    /\ adjacent_arcs # << >>
    /\ Len(hops) = 3 /\ AllDeclared(hops) /\ hops[1] > 0 /\ hops[2] > 0

\* ------------------------------------------------------------- C8
\* C8: after every line the point stored for an identifier is the coordinate
\* of its latest point line; a point line changes no index and no arc, so the
\* arcs made before it keep their cost; the arcs a segment end adds are costed
\* from the latest coordinates declared before it.
C8_LastWriteWins ==
    [][ /\ nodes' = declared'
        /\ declared' # declared => UNCHANGED << osm_id_map, adjacent_arcs >>
        /\ EndsSegment
           => \A u \in DOMAIN adjacent_arcs' :
                 \A k \in (OldLen(u) + 1) .. Len(adjacent_arcs'[u]) :
                     LET arc == adjacent_arcs'[u][k]
                         a == IdAt(osm_id_map', u - 1)
                         b == IdAt(osm_id_map', arc.index)
                     IN /\ a \in DOMAIN declared
                        /\ b \in DOMAIN declared
                        /\ arc.cost = CostOf(PointSub(declared[a], declared[b]),
                                             speed_factor) ]_vars

\* two arcs between the same nodes: one costed 8 from the first coordinates,
\* a later one costed 0 after a point was declared again
C8_Witness ==
    \E u \in DOMAIN adjacent_arcs : \E k, l \in DOMAIN adjacent_arcs[u] :
        /\ k < l
        /\ adjacent_arcs[u][k].index # u - 1
        /\ adjacent_arcs[u][k].index = adjacent_arcs[u][l].index
        /\ adjacent_arcs[u][k].cost = 8
        /\ adjacent_arcs[u][l].cost = 0

\* ------------------------------------------------------------- C9
\* C9: in every reachable state every adjacency list is non-empty, so every
\* identifier with an index has an arc.
C9_IndexedHaveArcs ==
    /\ \A u \in DOMAIN adjacent_arcs : adjacent_arcs[u] # << >>
    /\ \A osm_id \in DOMAIN osm_id_map :
          /\ osm_id_map[osm_id] + 1 \in DOMAIN adjacent_arcs
          /\ adjacent_arcs[osm_id_map[osm_id] + 1] # << >>

\* a declared point outside a non-empty graph, after an aborted segment end
C9_Witness ==
    /\ status = "panicked"
    /\ adjacent_arcs # << >>
    /\ \E osm_id \in DOMAIN nodes : osm_id \notin DOMAIN osm_id_map

\* ------------------------------------------------------------- C10
\* C10: in every step every identifier keeps its index, no index moves to
\* another identifier, every adjacency list stays a prefix of what it becomes,
\* and only the end of a segment changes the mapping or the lists.
C10_Monotone ==
    [][ /\ \A osm_id \in DOMAIN osm_id_map :
              osm_id \in DOMAIN osm_id_map' /\ osm_id_map'[osm_id] = osm_id_map[osm_id]
        /\ \A osm_id \in DOMAIN osm_id_map' \ DOMAIN osm_id_map :
              osm_id_map'[osm_id] >= Len(adjacent_arcs)
        /\ Len(adjacent_arcs) <= Len(adjacent_arcs')
        /\ \A u \in DOMAIN adjacent_arcs : IsPrefix(adjacent_arcs[u], adjacent_arcs'[u])
        /\ (osm_id_map' # osm_id_map \/ adjacent_arcs' # adjacent_arcs) => EndsSegment ]_vars

\* four edges on three nodes: a second segment has appended to the lists the
\* first one made
C10_Witness ==
    /\ nsegs = 2 /\ ~is_way
    /\ NumNodes = 3
    /\ TotalArcs(adjacent_arcs) = 8

\* ------------------------------------------------------------- C11
\* C11 compares two runs over one input; it has no formula here.

\* ------------------------------------------------------------- C12
\* C12: once a line could not be read the run has ended with an I/O error:
\* it is not going on and it has not returned Ok.
C12_IoFatal == unread > 0 => status = "io_error"

\* ------------------------------------------------------------- C13
\* C13: the line that matches a pattern and has a number that does not parse
\* ends the run in a panic, changes nothing of the network or of the segment
\* being read, and no step follows a panic: no later line is processed and
\* Ok is never returned.
C13_FailFast ==
    [][ /\ malformed' # malformed
           => /\ status' = "panicked"
              /\ UNCHANGED << osm_id_map, nodes, adjacent_arcs, hops, is_way,
                              is_highway, speed_factor >>
        /\ status # "panicked"
        /\ malformed = 0 ]_vars

\* a number failed to parse inside a second segment, the graph holding arcs
C13_Witness ==
    /\ malformed = 1 /\ status = "panicked"
    /\ is_way /\ nsegs = 2 /\ hops # << >>
    /\ adjacent_arcs # << >>

\* ------------------------------------------------------------- C14
\* the squared distance of two points in cm^2, the degrees scaled by
\* 111229 m and 71695 m
SquaredCm(p, q) ==
    LET x == ((IF p.lat < q.lat THEN q.lat - p.lat ELSE p.lat - q.lat) * 111229) \div 10
        y == ((IF p.lon < q.lon THEN q.lon - p.lon ELSE p.lon - q.lon) * 71695) \div 10
    IN x * x + y * y

\* c is the whole number of seconds it takes to go the root of s2 cm^2 at
\* kmh * 1000 / 3600 m/s: there is a d with d <= sqrt(s2) < d + 1 and
\* c <= (d / 100) / (kmh * 1000 / 3600) < c + 1
IsFloorCost(c, s2, kmh) ==
    \E d \in (c * kmh * 1000) \div 36 .. ((c + 1) * kmh * 1000) \div 36 :
        /\ d * d <= s2 /\ s2 < (d + 1) * (d + 1)
        /\ c * kmh * 1000 <= 36 * d /\ 36 * d < (c + 1) * kmh * 1000

\* C14: the two arcs a segment of two declared hops adds cost
\* floor(distance / speed) seconds, distance being
\* sqrt((dlat * 111229)^2 + (dlon * 71695)^2) m and speed the table's km/h
\* times 1000/3600; for 1 at (49.0, 6.0) and 2 at (49.0, 6.001), residential,
\* the result is one arc pair between index(1) and index(2), each of cost 8.
C14_FloorCost ==
    [][ (EndsSegment /\ Usable)
        => /\ Len(adjacent_arcs') = 2
           /\ \A u \in 1 .. 2 :
                 /\ Len(adjacent_arcs'[u]) = 1
                 /\ adjacent_arcs'[u][1].index = 2 - u
                 /\ adjacent_arcs'[u][1].cost >= 0
                 /\ IsFloorCost(adjacent_arcs'[u][1].cost,
                                SquaredCm(declared[1], declared[2]),
                                HighwaySpeed(tags[1]))
           /\ (/\ declared[1] = [lat |-> 49000, lon |-> 6000]
               /\ declared[2] = [lat |-> 49000, lon |-> 6001]
               /\ tags = << "residential" >>)
              => /\ adjacent_arcs'[osm_id_map'[1] + 1] = << NewArc(osm_id_map'[2], 8) >>
                 /\ adjacent_arcs'[osm_id_map'[2] + 1] = << NewArc(osm_id_map'[1], 8) >> ]_vars

\* the scenario's network: one arc pair of cost 8 between the two indices
C14_Witness ==
    /\ ~is_way
    /\ declared = (1 :> [lat |-> 49000, lon |-> 6000]) @@ (2 :> [lat |-> 49000, lon |-> 6001])
    /\ tags = << "residential" >>
    /\ DOMAIN osm_id_map = {1, 2}
    /\ adjacent_arcs = << << NewArc(1, 8) >>, << NewArc(0, 8) >> >>

\* ------------------------------------------------------------- C15
\* C15 as stated: after a <way line, read in a segment or outside one, the
\* loop is in a segment with no hops, the flag false and the speed 0.
C15_StartResetsSpeed ==
    [][ nsegs' # nsegs
        => /\ is_way' /\ hops' = << >> /\ ~is_highway'
           /\ speed_factor' = 0 ]_vars

\* C15 (amended): after a <way line, read in a segment or outside one, the
\* loop is in a segment with no hops and the flag false; the speed keeps the
\* value it had; the line changes no point, index or arc, so the hops and
\* tags of a segment left open produce no edges.
C15_StartResets ==
    [][ nsegs' # nsegs
        => /\ is_way' /\ hops' = << >> /\ ~is_highway'
           /\ speed_factor' = speed_factor
           /\ UNCHANGED << osm_id_map, adjacent_arcs, nodes, status >> ]_vars

\* a second <way line has just been read, the first segment's speed is still
\* there and the first segment has left no arc
C15_Witness ==
    /\ nsegs = 2 /\ is_way /\ hops = << >> /\ tags = << >>
    /\ ~is_highway /\ speed_factor > 0
    /\ adjacent_arcs = << >>
    /\ Cardinality(DOMAIN nodes) >= 2

\* ------------------------------------------------------------- C16
\* C16: a point line with a new coordinate for its identifier changes that
\* one stored point and nothing else: not the segment flag, the hops, the
\* highway flag, the speed, the index mapping, the arcs or another point.
C16_PointFrame ==
    [][ declared' # declared
        => /\ UNCHANGED << is_way, hops, is_highway, speed_factor, osm_id_map,
                           adjacent_arcs, status >>
           /\ \E osm_id \in Ids :
                 /\ DOMAIN nodes' = DOMAIN nodes \cup {osm_id}
                 /\ \A k \in DOMAIN nodes \ {osm_id} : nodes'[k] = nodes[k] ]_vars

\* points stored while a tagged segment with hops is open over a graph
C16_Witness ==
    /\ is_way /\ is_highway /\ Len(hops) >= 2
    /\ adjacent_arcs # << >>
    /\ \E osm_id \in DOMAIN nodes : osm_id \notin DOMAIN osm_id_map

\* ------------------------------------------------------------- C17
\* C17: the end of input is reached from the running loop and changes no
\* index and no arc; while a segment stays open no index and no arc changes;
\* and a segment is opened by a <way line only.  So a segment open at the
\* end leaves the network as it was at its <way line.
C17_OpenSegmentDiscarded ==
    [][ /\ status' = "done"
           => status = "running" /\ UNCHANGED << osm_id_map, adjacent_arcs, nodes >>
        /\ (is_way /\ is_way' /\ status' # "panicked")
           => UNCHANGED << osm_id_map, adjacent_arcs >>
        /\ (is_way' /\ nsegs' = nsegs) => is_way ]_vars

\* the input has ended inside a usable segment of declared hops: no arc
C17_Witness ==
    /\ status = "done" /\ is_way /\ Usable
    /\ Len(hops) >= 2 /\ AllDeclared(hops) /\ hops[1] > 0
    /\ adjacent_arcs = << >>

\* ------------------------------------------------------------- C18
\* C18: outside a segment every line but a <way line leaves the hops, the
\* flags, the speed, the index mapping and the arcs as they are.
C18_IdleInert ==
    [][ (~is_way /\ nsegs' = nsegs)
        => UNCHANGED << hops, is_way, is_highway, speed_factor, osm_id_map,
                        adjacent_arcs >> ]_vars

\* outside a segment, the one just closed having made one edge from hops and
\* a flag that are still there
C18_Witness ==
    /\ ~is_way /\ status = "running" /\ Usable
    /\ nsegs = 1 /\ Len(hops) = 2
    /\ TotalArcs(adjacent_arcs) = 2

\* ------------------------------------------------------------- C19
\* C19: in every reachable state, if is_highway is true then a highway tag
\* has been read since the last <way line and the speed is positive and the
\* table speed of the last of them.
C19_FlagImpliesSpeed ==
    is_highway => /\ tags # << >>
                  /\ speed_factor > 0
                  /\ speed_factor = HighwaySpeed(LastTag)

\* a second segment is open with hops, the flag false and the first
\* segment's speed left over
C19_Witness ==
    /\ nsegs = 2 /\ is_way /\ ~is_highway /\ speed_factor > 0
    /\ Len(hops) >= 2 /\ AllDeclared(hops) /\ hops[1] > 0

\* ------------------------------------------------------------- C20
\* the first consecutive pair of hs with an undeclared hop
FirstDangling(hs) ==
    CHOOSE i \in 1 .. Len(hs) - 1 :
        /\ hs[i] \notin DOMAIN nodes \/ hs[i + 1] \notin DOMAIN nodes
        /\ \A j \in 1 .. i - 1 : hs[j] \in DOMAIN nodes /\ hs[j + 1] \in DOMAIN nodes

\* C20: a segment end that fails at its i-th consecutive pair leaves exactly
\* the edges of the pairs 1 .. i-1 added, and no index without arcs.
C20_FailedEdgeAtomic ==
    [][ (EndsSegment /\ Usable /\ status' = "panicked")
        => /\ TotalArcs(adjacent_arcs')
                = TotalArcs(adjacent_arcs) + 2 * (FirstDangling(hops) - 1)
           /\ \A u \in DOMAIN adjacent_arcs' : adjacent_arcs'[u] # << >> ]_vars

====
